---- MODULE Spec2Model ----
(***************************************************************************)
(* The generation pipeline of runway-vision-builder.                       *)
(*                                                                         *)
(* src/App.tsx holds two variants of the application controller:           *)
(*   "v1"  lines 38-608   one product, one model; cutout and video run in  *)
(*                         parallel after the product shot (handleGenerate  *)
(*                         at 180-237, pollVideo at 323-364);               *)
(*   "v2"  lines 640-1180 several products and models, one composition     *)
(*                         call per model (handleGenerate at 823-884, the   *)
(*                         poll effect at 888-918).  Lines 1213-1738 repeat *)
(*                         the same controller with another layout.         *)
(* A behaviour runs one variant, chosen in Init.  State that both variants *)
(* declare under the same name (generationState, generatedResult,          *)
(* selectedScene, selectedColor, selectedPose) is one variable here.       *)
(*                                                                         *)
(* Every backend call is a record in `calls` from the moment it is issued  *)
(* until its promise settles; the step that removes it runs the whole      *)
(* continuation the code attaches to that promise, up to the next await.   *)
(* Each invocation of handleGenerate is an entry of `runs`: the values its *)
(* closure captured and the await it is suspended at.                      *)
(*                                                                         *)
(* src/services/geminiService.ts and src/unnamed/part_001 hold two         *)
(* variants of composeFinalImage; SpecCompose follows one call of either.  *)
(***************************************************************************)
EXTENDS Integers, Sequences, FiniteSets, TLC

\* ---------------------------------------------------------------- bounds
\* handleGenerate invocations in one behaviour.
MaxRuns == 2
\* poll requests in flight at once.
MaxPolls == 2
\* setTimeout callbacks of handleApplyAndGenerate pending at once.
MaxTimers == 1
\* poll requests in flight at once while the identity lock is followed
MaxLockPolls == 1
\* runs of the CameraView effect in one behaviour
MaxCameraEffects == 4
\* handleGenerate invocations in one behaviour of SpecLookbook.
MaxLookbookRuns == 1
\* entries that saveToLookbook stores in one behaviour.
MaxEntries == 2
\* custom items added to the catalogues in one behaviour.
MaxCustom == 2

\* ---------------------------------------------------------- value spaces
Products == {"denim"}
Models == {"ava", "chloe"}
ModelsV1 == {"ava"}
Scenes == {"mountain"}
Colors == {"white"}
Poses == {"standing"}
null == "null"

RunIds == 1..MaxRuns

LoadingStates == {"loading-image", "loading-cutout", "loading-video-description", "loading-video"}

\* An absent image / operation / video, in the shape of a present one.
NoImage == [run |-> 0, model |-> null]
NoOperation == [id |-> 0, done |-> FALSE]
\* Every image is the first model's, whichever call made it.
ImageOfFirstModel(r, m) == [run |-> r, model |-> "ava"]
Image(r, m) == [run |-> r, model |-> m]
Operation(r, d) == [id |-> r, done |-> d]

\* v2 GeneratedResult: one element of the generatedResult array.
EmptyJob == [model |-> null, image |-> NoImage, cutoutImage |-> 0,
             videoOperation |-> NoOperation, video |-> 0]
\* v2 generatedResult: null, or an array of jobs.
NullResult == [isNull |-> TRUE, jobs |-> <<>>]
ArrayResult(js) == [isNull |-> FALSE, jobs |-> js]

\* v1 generatedResult: null, or one object with optional fields.
NullResultV1 == [isNull |-> TRUE, image |-> 0, cutoutImage |-> 0,
                 videoOperation |-> NoOperation, video |-> 0, error |-> FALSE]
EmptyObjectV1 == [NullResultV1 EXCEPT !.isNull = FALSE]

\* No composeFinalImage call is being followed.
NoCompose == [service |-> "none"]
\* src/data.ts INITIAL_PRODUCTS, INITIAL_MODELS, INITIAL_SCENES; added counts the
\* custom items created so far (each gets an id of its own, Date.now()).
InitialCatalogue ==
  [products |-> Products, models |-> Models, scenes |-> Scenes, added |-> 0, uploads |-> {}]
\* No CameraView is mounted.
\* One run of the CameraView effect: how far startCamera got, whether the
\* cleanup of this run has been called, and the MediaStream in its `stream`.
UnusedEffect == [phase |-> "unused", cleaned |-> FALSE, stream |-> "none"]
\* ModelSelector's camera tab.  effect: the run of the effect whose cleanup
\* React holds; srcObject: the run whose stream the <video> element shows.
NoCamera ==
  [followed |-> FALSE, mounted |-> FALSE, capturedImage |-> FALSE,
   isProcessing |-> FALSE, processingError |-> FALSE, error |-> FALSE,
   effect |-> 0, srcObject |-> 0,
   effects |-> [e \in 1..MaxCameraEffects |-> UnusedEffect]]
ClosedCamera == [NoCamera EXCEPT !.followed = TRUE]
\* The identity lock is not being followed.  enabled: isModelLockEnabled (v1);
\* reference: the run whose image is referenceImageUrl (v1) or
\* lockedCharacterImage (v2), 0 for null; requests: the parameters of the
\* generateProductShot calls made; snapshots: the lock state in the closures of
\* the pending setTimeout callbacks (v1).
NoLock == [followed |-> FALSE, enabled |-> FALSE, reference |-> 0, requests |-> {},
           snapshots |-> <<>>]
OpenLock == [NoLock EXCEPT !.followed = TRUE]
\* The entries of the lookbook are not being followed.
NoLookbook == [followed |-> FALSE, entries |-> <<>>]
EmptyLookbook == [followed |-> TRUE, entries |-> <<>>]
\* No checkVideoStatus call is being followed.
NoStatusCall == [service |-> "none"]

UnusedRun == [phase |-> "unused", models |-> {}, resolved |-> {}]
EndedRun(run) == [phase |-> "ended", models |-> run.models, resolved |-> {}]

VARIABLES
  variant,            \* which controller of src/App.tsx runs
  selectedProducts,   \* v2: Product[]   (v1: selectedProduct, a set of at most one)
  selectedModels,     \* v2: Model[]     (v1: selectedModel, a set of at most one)
  selectedScene,
  selectedColor,
  selectedPose,
  generationState,
  generationError,    \* v2 only
  generatedResult,
  runs,               \* handleGenerate invocations
  calls,              \* backend calls in flight, other than polls
  polls,              \* pollVideoOperation calls in flight, per operation id
  videoPollInterval,  \* v1: the interval of the ref is scheduled
  applyTimers,        \* v1: pending setTimeout of handleApplyAndGenerate
  compose,            \* one call of composeFinalImage
  videoStatus,        \* one call of checkVideoStatus
  lookbook,           \* v1: collections; v2: lookbook
  catalogue,          \* products, models and scenes on offer
  camera,             \* the CameraView of the model selector
  lock                \* the identity lock and the reference image of the requests

vars == <<variant, selectedProducts, selectedModels, selectedScene, selectedColor,
          selectedPose, generationState, generationError, generatedResult,
          runs, calls, polls, videoPollInterval, applyTimers, compose, videoStatus,
          lookbook, catalogue, camera, lock>>

selections == <<selectedProducts, selectedModels, selectedScene, selectedColor, selectedPose>>
generation == <<generationState, generationError, generatedResult>>
services == <<compose, videoStatus>>
elsewhere == <<catalogue, camera>>

\* ------------------------------------------------------------- helpers
Call(k, r, m) == [kind |-> k, run |-> r, model |-> m]
\* Every call in flight, whatever function it calls.
CallsOfAny(k) == calls
CallsOf(k) == {c \in calls : c.kind = k}

\* JavaScript's `x ? a : b` on a toggle of an id in an array.
Toggle(set, x) == IF x \in set THEN set \ {x} ELSE set \cup {x}

\* The invocations of handleGenerate that are followed: MaxRuns, or
\* MaxLookbookRuns while the entries of the lookbook are followed too.
RunLimit == IF lookbook.followed THEN MaxLookbookRuns ELSE MaxRuns
PollLimit == IF lock.followed THEN MaxLockPolls ELSE MaxPolls
FreeRuns == {r \in 1..RunLimit : runs[r].phase = "unused"}
NewRun == CHOOSE r \in FreeRuns : \A q \in FreeRuns : r <= q

RECURSIVE Sum(_, _)
Sum(f, S) == IF S = {} THEN 0
             ELSE LET x == CHOOSE y \in S : TRUE IN f[x] + Sum(f, S \ {x})
PollsInFlight == Sum(polls, RunIds)
\* pollVideoOperation(op) is issued / the poll of operation `id` settles.
PollIssued(op) == polls' = [polls EXCEPT ![op.id] = @ + 1]
PollSettled(id) == polls[id] > 0 /\ polls' = [polls EXCEPT ![id] = @ - 1]

\* ============================================================ v2 controller
\* src/App.tsx:690-692
isGenerateDisabled ==
  \/ selectedProducts = {}
  \/ selectedModels = {}
  \/ selectedPose = null
  \/ (selectedScene = null /\ selectedColor = null)
  \/ generationState \notin {"idle", "success", "error"}

\* src/App.tsx:778-779  createToggleHandler(setSelectedProducts / setSelectedModels)
handleSelectProduct(p) ==
  /\ variant = "v2"
  /\ selectedProducts' = Toggle(selectedProducts, p)
  /\ UNCHANGED <<variant, services, elsewhere, lock, lookbook, selectedModels, selectedScene, selectedColor, selectedPose,
                 generation, runs, calls, polls, videoPollInterval, applyTimers>>

handleSelectModel(m) ==
  /\ variant = "v2"
  /\ selectedModels' = Toggle(selectedModels, m)
  /\ UNCHANGED <<variant, services, elsewhere, lock, lookbook, selectedProducts, selectedScene, selectedColor, selectedPose,
                 generation, runs, calls, polls, videoPollInterval, applyTimers>>

\* src/App.tsx:782-785
handleSelectScene(s) ==
  /\ variant = "v2"
  /\ selectedScene' = s
  /\ selectedColor' = null
  /\ UNCHANGED <<variant, services, elsewhere, lock, lookbook, selectedProducts, selectedModels, selectedPose,
                 generation, runs, calls, polls, videoPollInterval, applyTimers>>

\* handleColorChange without its second statement, setSelectedScene(null).
handleColorChangeKeepingScene(c) ==
  /\ variant = "v2"
  /\ selectedColor' = c
  /\ UNCHANGED <<variant, services, elsewhere, lock, lookbook, selectedProducts, selectedModels,
                 selectedScene, selectedPose,
                 generation, runs, calls, polls, videoPollInterval, applyTimers>>

\* src/App.tsx:787-790
handleColorChange(c) ==
  /\ variant = "v2"
  /\ selectedColor' = c
  /\ selectedScene' = null
  /\ UNCHANGED <<variant, services, elsewhere, lock, lookbook, selectedProducts, selectedModels, selectedPose,
                 generation, runs, calls, polls, videoPollInterval, applyTimers>>

\* The lock after step(lock), when it is followed.
Locked(after) == lock' = IF lock.followed THEN after ELSE lock
\* The parameters of one generateProductShot call: the lock state of the closure
\* that made it and the referenceImageUrl it was given.
Request(c, enabled, reference, attached) ==
  [call |-> c, enabled |-> enabled, reference |-> reference, attached |-> attached]
\* The requests of l without the one of call c, which has returned.
Returned(l, c) == [l EXCEPT !.requests = {q \in @ : q.call # c}]
\* src/App.tsx:70-75: the effect that turns the lock off when no model is selected.
ModelLockEffect(l) == IF selectedModels' = {} THEN [l EXCEPT !.enabled = FALSE] ELSE l

\* src/App.tsx:694-707.  Calls in flight and suspended handleGenerate
\* invocations are not touched: the controller keeps no handle on them.
resetSelections ==
  /\ variant = "v2"
  /\ selectedProducts' = {}
  /\ selectedModels' = {}
  /\ selectedScene' = null
  /\ selectedColor' = null
  /\ selectedPose' = "standing"
  /\ generatedResult' = NullResult
  /\ generationState' = "idle"
  /\ generationError' = null
  /\ UNCHANGED <<variant, services, elsewhere, lookbook, runs, calls, polls, videoPollInterval, applyTimers>>
  /\ Locked([lock EXCEPT !.reference = 0])

\* src/App.tsx:809-820: resetSelections, then the products, the model and the
\* scene that the suggestion names, for those the catalogues have.
applySuggestion(productsToSelect, model, scene) ==
  /\ variant = "v2"
  /\ selectedProducts' = productsToSelect
  /\ selectedModels' = IF model # null THEN {model} ELSE {}
  /\ selectedScene' = scene
  /\ selectedColor' = null
  /\ selectedPose' = "standing"
  /\ generatedResult' = NullResult
  /\ generationState' = "idle"
  /\ generationError' = null
  /\ UNCHANGED <<variant, services, elsewhere, lookbook, runs, calls, polls, videoPollInterval, applyTimers>>
  /\ Locked([lock EXCEPT !.reference = 0])

\* src/App.tsx:823-850: the guard, the three setters, and one generateProductShot
\* call per selected model.  The invocation then waits in Promise.all (852).
\* The button that calls it is disabled by isGenerateDisabled (src/App.tsx:1085-1086).
handleGenerateStarts ==
  /\ ~isGenerateDisabled
  /\ selectedProducts # {} /\ selectedModels # {} /\ selectedPose # null

handleGenerate ==
  /\ variant = "v2"
  /\ FreeRuns # {}
  /\ ~isGenerateDisabled
  /\ IF handleGenerateStarts
       THEN /\ generationState' = "loading-image"
            /\ generationError' = null
            /\ generatedResult' = ArrayResult(<<>>)
            /\ runs' = [runs EXCEPT ![NewRun] =
                          [phase |-> "awaitAll", models |-> selectedModels, resolved |-> {}]]
            /\ calls' = calls \cup {Call("compose", NewRun, m) : m \in selectedModels}
       ELSE UNCHANGED <<generation, runs, calls>>
  /\ UNCHANGED <<variant, services, elsewhere, lookbook, selections, polls, videoPollInterval, applyTimers>>
  /\ Locked(IF handleGenerateStarts
              THEN [lock EXCEPT !.requests = @ \cup
                      {Request(Call("compose", NewRun, m), TRUE, lock.reference, lock.reference) :
                         m \in selectedModels}]
              ELSE lock)

\* `prev ? [{ ...prev[0], <patch> }] : null` (src/App.tsx:861, 872, 899, 905):
\* the first job patched, every other job dropped; an empty array is truthy and
\* prev[0] is then undefined, which spreads to no fields.
FirstJob(res) == IF Len(res.jobs) > 0 THEN res.jobs[1] ELSE EmptyJob
PatchFirst(res, field, value) ==
  IF res.isNull THEN NullResult
  ELSE ArrayResult(<<[FirstJob(res) EXCEPT ![field] = value]>>)
PatchFirst2(res, f1, v1, f2, v2) ==
  IF res.isNull THEN NullResult
  ELSE ArrayResult(<<[FirstJob(res) EXCEPT ![f1] = v1, ![f2] = v2]>>)

\* `[...(prev || []), newResult]` (src/App.tsx:847)
Append2(res, job) == ArrayResult(Append(res.jobs, job))

\* src/App.tsx:878-883, the catch block of handleGenerate
CatchGenerate(r) ==
  /\ generationError' = "message"
  /\ generationState' = "error"
  /\ runs' = [runs EXCEPT ![r] = EndedRun(@)]

\* Every run is taken for a single-model run.
isMultiModelNever(r) == FALSE
\* src/App.tsx:831  const isMultiModel = selectedModels.length > 1, in the closure
\* of invocation r.
isMultiModel(r) == Cardinality(runs[r].models) > 1

\* src/App.tsx:845-849 then 852-875: generateProductShot(params) fulfils.  The
\* .then callback appends the job; when it was the last of the run, Promise.all
\* fulfils and the invocation goes on: one model -> cutout and description calls
\* (state 'loading-cutout' then at once 'loading-video-description'), several
\* models -> 'success'.
generateProductShotResolved(c) ==
  /\ variant = "v2"
  /\ c \in CallsOf("compose")
  /\ UNCHANGED polls
  /\ LET r == c.run
         job == [EmptyJob EXCEPT !.model = c.model, !.image = Image(r, c.model)]
         resolved == runs[r].resolved \cup {c.model}
         all == runs[r].phase = "awaitAll" /\ resolved = runs[r].models
     IN /\ generatedResult' = Append2(generatedResult, job)
        /\ generationError' = generationError
        /\ IF ~all
             THEN /\ runs' = IF runs[r].phase = "awaitAll"
                                    THEN [runs EXCEPT ![r].resolved = resolved] ELSE runs
                  /\ calls' = calls \ {c}
                  /\ generationState' = generationState
           ELSE IF ~isMultiModel(r)
             THEN /\ runs' = [runs EXCEPT ![r].resolved = resolved, ![r].phase = "awaitDesc"]
                  /\ calls' = (calls \ {c}) \cup {Call("cutout", r, null), Call("describe", r, null)}
                  /\ generationState' = "loading-video-description"
           ELSE   /\ runs' = [runs EXCEPT ![r] = EndedRun(@)]
                  /\ calls' = calls \ {c}
                  /\ generationState' = "success"
  /\ UNCHANGED <<variant, services, elsewhere, lookbook, selections, videoPollInterval, applyTimers>>
  /\ Locked(Returned(lock, c))

\* generateProductShot rejects: Promise.all rejects at the first rejection and the
\* catch block runs; the other calls of the run stay in flight with their .then.
generateProductShotRejected(c) ==
  /\ variant = "v2"
  /\ c \in CallsOf("compose")
  /\ UNCHANGED polls
  /\ calls' = calls \ {c}
  /\ IF runs[c.run].phase = "awaitAll"
       THEN CatchGenerate(c.run) /\ UNCHANGED generatedResult
       ELSE UNCHANGED <<generation, runs>>
  /\ UNCHANGED <<variant, services, elsewhere, lookbook, selections, videoPollInterval, applyTimers>>
  /\ Locked(Returned(lock, c))

\* src/App.tsx:860-862
createProductCutoutResolved(c) ==
  /\ variant = "v2"
  /\ c \in CallsOf("cutout")
  /\ UNCHANGED polls
  /\ calls' = calls \ {c}
  /\ generatedResult' = PatchFirst(generatedResult, "cutoutImage", c.run)
  /\ UNCHANGED <<variant, services, elsewhere, lock, lookbook, selections, generationState, generationError, runs,
                 videoPollInterval, applyTimers>>

\* src/App.tsx:862  .catch(err => console.error("Cutout failed:", err))
createProductCutoutRejected(c) ==
  /\ variant = "v2"
  /\ c \in CallsOf("cutout")
  /\ UNCHANGED polls
  /\ calls' = calls \ {c}
  /\ UNCHANGED <<variant, services, elsewhere, lock, lookbook, selections, generation, runs, videoPollInterval, applyTimers>>

\* src/App.tsx:866-871
generateDescriptionForVideoResolved(c) ==
  /\ variant = "v2"
  /\ c \in CallsOf("describe")
  /\ UNCHANGED polls
  /\ calls' = (calls \ {c}) \cup {Call("video", c.run, null)}
  /\ generationState' = "loading-video"
  /\ runs' = [runs EXCEPT ![c.run].phase = "awaitVideo"]
  /\ UNCHANGED <<variant, services, elsewhere, lock, lookbook, selections, generationError, generatedResult,
                 videoPollInterval, applyTimers>>

generateDescriptionForVideoRejected(c) ==
  /\ variant = "v2"
  /\ c \in CallsOf("describe")
  /\ UNCHANGED polls
  /\ calls' = calls \ {c}
  /\ CatchGenerate(c.run)
  /\ UNCHANGED <<variant, services, elsewhere, lock, lookbook, selections, generatedResult, videoPollInterval, applyTimers>>

\* src/App.tsx:871-872.  The operation the backend hands back may already be done.
generateRunwayVideoResolved(c, done) ==
  /\ variant = "v2"
  /\ c \in CallsOf("video")
  /\ UNCHANGED polls
  /\ calls' = calls \ {c}
  /\ generatedResult' = PatchFirst(generatedResult, "videoOperation", Operation(c.run, done))
  /\ runs' = [runs EXCEPT ![c.run] = EndedRun(@)]
  /\ UNCHANGED <<variant, services, elsewhere, lock, lookbook, selections, generationState, generationError,
                 videoPollInterval, applyTimers>>

generateRunwayVideoRejected(c) ==
  /\ variant = "v2"
  /\ c \in CallsOf("video")
  /\ UNCHANGED polls
  /\ calls' = calls \ {c}
  /\ CatchGenerate(c.run)
  /\ UNCHANGED <<variant, services, elsewhere, lock, lookbook, selections, generatedResult, videoPollInterval, applyTimers>>


\* ---------------------------------------------------------- v2 video poll
\* src/App.tsx:888-889 and 916: the effect keeps an interval scheduled exactly
\* while its condition holds for the rendered state (the cleanup clears it on
\* every change of generationState or generatedResult).
PollIntervalScheduled ==
  /\ generationState = "loading-video"
  /\ ~generatedResult.isNull
  /\ Len(generatedResult.jobs) > 0
  /\ generatedResult.jobs[1].videoOperation # NoOperation
  /\ ~generatedResult.jobs[1].videoOperation.done

\* src/App.tsx:890-892: the interval fires and the callback issues
\* pollVideoOperation for the operation of the rendered result.
pollTick ==
  /\ variant = "v2"
  /\ PollIntervalScheduled
  /\ PollsInFlight < PollLimit
  /\ PollIssued(generatedResult.jobs[1].videoOperation)
  /\ UNCHANGED <<variant, services, elsewhere, lock, lookbook, selections, generation, runs, calls, videoPollInterval, applyTimers>>

\* src/App.tsx:907-913, the catch block of the interval callback
CatchPoll ==
  /\ generationError' = "message"
  /\ generationState' = "error"
  /\ UNCHANGED generatedResult

\* src/App.tsx:892-906: pollVideoOperation fulfils with the updated operation:
\* "uri" = done with a video uri, "nouri" = done without one, "pending" = not done.
PollOutcomes == {"uri", "nouri", "pending"}
pollVideoOperationResolved(id, outcome) ==
  /\ variant = "v2"
  /\ PollSettled(id)
  /\ UNCHANGED calls
  /\ CASE outcome = "uri" ->
            /\ generatedResult' = PatchFirst2(generatedResult, "video", id,
                                              "videoOperation", Operation(id, TRUE))
            /\ generationState' = "success"
            /\ UNCHANGED generationError
       [] outcome = "nouri" -> CatchPoll
       [] outcome = "pending" ->
            /\ generatedResult' = PatchFirst(generatedResult, "videoOperation",
                                             Operation(id, FALSE))
            /\ UNCHANGED <<generationState, generationError>>
  /\ UNCHANGED <<variant, services, elsewhere, lock, lookbook, selections, runs, videoPollInterval, applyTimers>>

\* pollVideoOperation rejects (src/App.tsx:907-913)
pollVideoOperationRejected(id) ==
  /\ variant = "v2"
  /\ PollSettled(id)
  /\ UNCHANGED calls
  /\ CatchPoll
  /\ UNCHANGED <<variant, services, elsewhere, lock, lookbook, selections, runs, videoPollInterval, applyTimers>>

NextV2 ==
  \/ \E p \in Products : handleSelectProduct(p)
  \/ \E m \in Models : handleSelectModel(m)
  \/ \E s \in Scenes : handleSelectScene(s)
  \/ \E c \in Colors : handleColorChange(c)
  \/ resetSelections
  \/ \E ps \in SUBSET Products, m \in Models \cup {null}, s \in Scenes \cup {null} :
       applySuggestion(ps, m, s)
  \/ handleGenerate
  \/ \E c \in calls : generateProductShotResolved(c)
  \/ \E c \in calls : generateProductShotRejected(c)
  \/ \E c \in calls : createProductCutoutResolved(c)
  \/ \E c \in calls : createProductCutoutRejected(c)
  \/ \E c \in calls : generateDescriptionForVideoResolved(c)
  \/ \E c \in calls : generateDescriptionForVideoRejected(c)
  \/ \E c \in calls, done \in BOOLEAN : generateRunwayVideoResolved(c, done)
  \/ \E c \in calls : generateRunwayVideoRejected(c)
  \/ pollTick
  \/ \E id \in RunIds : pollVideoOperationRejected(id)
  \/ \E id \in RunIds, o \in PollOutcomes : pollVideoOperationResolved(id, o)

StartV2 ==
  /\ variant = "v2"
  /\ selectedProducts = {}
  /\ selectedModels = {}
  /\ selectedScene = null
  /\ selectedColor = null
  /\ selectedPose = "standing"
  /\ generationState = "idle"
  /\ generationError = null
  /\ generatedResult = NullResult
  /\ runs = [r \in RunIds |-> UnusedRun]
  /\ calls = {}
  /\ polls = [r \in RunIds |-> 0]
  /\ videoPollInterval = FALSE
  /\ applyTimers = <<>>
  /\ catalogue = InitialCatalogue
  /\ camera = NoCamera
  /\ compose = NoCompose
  /\ videoStatus = NoStatusCall

InitV2 == StartV2 /\ lookbook = NoLookbook /\ lock = NoLock

SpecV2 == InitV2 /\ [][NextV2]_vars

\* ============================================================ v1 controller
\* src/App.tsx:68, computed by every render of v1 and read by the closures of that
\* render (the handleGenerate that a setTimeout keeps, src/App.tsx:315-317).
isGenerationDisabled ==
  \/ selectedProducts = {}
  \/ selectedModels = {}
  \/ (selectedScene = null /\ selectedColor = null)
  \/ selectedPose = null

\* src/App.tsx:460, 493  setSelected(curr => curr?.id === x.id ? null : x)
ToggleOne(set, x) == IF set = {x} THEN {} ELSE {x}

\* The body of the effect runs, its cleanup does not.
PollEffectWithoutCleanup(rerun) ==
  videoPollInterval' = (videoPollInterval \/ (rerun /\ generationState' = "loading-video"))
\* src/App.tsx:357-364: the effect runs again after every render in which
\* generationState or pollVideo (that is generatedResult or collections) changed;
\* its cleanup clears the interval of the ref, its body schedules a new one when
\* the state is 'loading-video'.
PollEffect(rerun) ==
  videoPollInterval' = IF rerun THEN generationState' = "loading-video" ELSE videoPollInterval

onSelectProduct(p) ==
  /\ variant = "v1"
  /\ selectedProducts' = ToggleOne(selectedProducts, p)
  /\ UNCHANGED <<variant, services, elsewhere, lock, lookbook, selectedModels, selectedScene, selectedColor, selectedPose,
                 generation, runs, calls, polls, videoPollInterval, applyTimers>>

onSelectModel(m) ==
  /\ variant = "v1"
  /\ selectedModels' = ToggleOne(selectedModels, m)
  /\ UNCHANGED <<variant, services, elsewhere, lookbook, selectedProducts, selectedScene, selectedColor, selectedPose,
                 generation, runs, calls, polls, videoPollInterval, applyTimers>>
  /\ Locked(ModelLockEffect(lock))

\* src/App.tsx:503
onSelectPose(p) ==
  /\ variant = "v1"
  /\ selectedPose' = IF selectedPose = p THEN null ELSE p
  /\ UNCHANGED <<variant, services, elsewhere, lock, lookbook, selectedProducts, selectedModels, selectedScene, selectedColor,
                 generation, runs, calls, polls, videoPollInterval, applyTimers>>

\* src/App.tsx:154-157
handleSelectSceneV1(s) ==
  /\ variant = "v1"
  /\ selectedScene' = s
  /\ selectedColor' = null
  /\ UNCHANGED <<variant, services, elsewhere, lock, lookbook, selectedProducts, selectedModels, selectedPose,
                 generation, runs, calls, polls, videoPollInterval, applyTimers>>

\* src/App.tsx:159-162
handleColorChangeV1(c) ==
  /\ variant = "v1"
  /\ selectedColor' = c
  /\ selectedScene' = null
  /\ UNCHANGED <<variant, services, elsewhere, lock, lookbook, selectedProducts, selectedModels, selectedPose,
                 generation, runs, calls, polls, videoPollInterval, applyTimers>>

\* src/App.tsx:164-178.  isFullReset is true from the logo (447) and from Start
\* Over (405), false from Create Another Look (412), a button that is rendered
\* after 'success', or after 'error' with an image (400), when the model lock is on.
resetSelectionsV1(isFullReset) ==
  /\ variant = "v1"
  /\ isFullReset \/ ((generationState = "success"
                        \/ (generationState = "error" /\ generatedResult.image # 0))
                     /\ (lock.followed => lock.enabled))
  /\ IF isFullReset
       THEN /\ selectedProducts' = {}
            /\ selectedModels' = {}
            /\ selectedScene' = null
            /\ selectedColor' = null
            /\ selectedPose' = null
       ELSE UNCHANGED selections
  /\ generatedResult' = NullResultV1
  /\ generationState' = "idle"
  /\ PollEffect(generationState # "idle" \/ generatedResult # NullResultV1)
  /\ UNCHANGED <<variant, services, elsewhere, lookbook, generationError, runs, calls, polls, applyTimers>>
  /\ Locked(IF isFullReset THEN [lock EXCEPT !.enabled = FALSE, !.reference = 0] ELSE lock)

\* src/App.tsx:180-197: handleGenerate of a render whose isGenerationDisabled
\* is `disabled`; the invocation returns at line 181 when it is.
GenerateV1(disabled) ==
  IF disabled
    THEN /\ runs' = [runs EXCEPT ![NewRun].phase = "returned"]
         /\ UNCHANGED <<generation, calls, polls, videoPollInterval>>
    ELSE /\ UNCHANGED polls
         /\ generationState' = "loading-image"
         /\ generatedResult' = NullResultV1
         /\ UNCHANGED generationError
         /\ runs' = [runs EXCEPT ![NewRun] =
                       [phase |-> "awaitImage", models |-> {}, resolved |-> {}]]
         /\ calls' = calls \cup {Call("compose", NewRun, null)}
         /\ PollEffect(generationState # "loading-image" \/ generatedResult # NullResultV1)

\* src/App.tsx:570-572: the Generate button, enabled by its `disabled` attribute.
handleGenerateV1 ==
  /\ variant = "v1"
  /\ FreeRuns # {}
  /\ ~(isGenerationDisabled \/ generationState \in LoadingStates)
  /\ GenerateV1(isGenerationDisabled)
  /\ UNCHANGED <<variant, services, elsewhere, lookbook, selections, applyTimers>>
  /\ Locked([lock EXCEPT !.requests = @ \cup
               {Request(Call("compose", NewRun, null), lock.enabled, lock.reference,
                        IF lock.enabled THEN lock.reference ELSE 0)}])

\* src/App.tsx:298-321.  `found`: the suggestion's product, model and scene names
\* are all in the catalogues.  The timeout keeps the handleGenerate of this render.
handleApplyAndGenerate(found, m, s) ==
  /\ variant = "v1"
  /\ Len(applyTimers) < MaxTimers
  /\ IF found
       THEN /\ selectedProducts' = {"denim"}
            /\ selectedModels' = {m}
            /\ selectedScene' = s
            /\ selectedColor' = null
            /\ selectedPose' = "standing"
            /\ applyTimers' = Append(applyTimers, isGenerationDisabled)
       ELSE UNCHANGED <<selections, applyTimers>>
  /\ UNCHANGED <<variant, services, elsewhere, lookbook, generation, runs, calls, polls, videoPollInterval>>
  /\ Locked(IF found
              THEN [lock EXCEPT !.snapshots = Append(@, [enabled |-> lock.enabled,
                                                          reference |-> lock.reference])]
              ELSE lock)

\* src/App.tsx:315-317: the timeout fires.
applyTimerFires ==
  /\ variant = "v1"
  /\ applyTimers # <<>>
  /\ FreeRuns # {}
  /\ GenerateV1(Head(applyTimers))
  /\ applyTimers' = Tail(applyTimers)
  /\ UNCHANGED <<variant, services, elsewhere, lookbook, selections>>
  /\ Locked(LET closure == Head(lock.snapshots)
            IN [lock EXCEPT !.snapshots = Tail(@),
                            !.requests = IF Head(applyTimers) THEN @ ELSE @ \cup
                              {Request(Call("compose", NewRun, null), closure.enabled,
                                       closure.reference,
                                       IF closure.enabled THEN closure.reference ELSE 0)}])

\* src/App.tsx:205-207: newCollectionEntry, put in front of collections.  Its
\* result is the object newResult itself; `original` says that the entry of the
\* list is still that object.  The selections of an entry are written once, here,
\* and copied by every later `{ ...c, result }`; they are left out.
Collect(r, res) ==
  lookbook' = IF lookbook.followed
                THEN [lookbook EXCEPT !.entries = <<[id |-> r, result |-> res, original |-> TRUE]>> \o @]
                ELSE lookbook
\* The object res with the fields of patch written over its own.
Patched(res, patch) ==
  [f \in DOMAIN res |-> IF f \in DOMAIN patch THEN patch[f] ELSE res[f]]
\* src/App.tsx:219, 226: an assignment to a field of newCollectionEntry.result of
\* run r; it shows in collections while the entry there is still that object.
MutateEntry(r, patch) ==
  lookbook' = [lookbook EXCEPT !.entries =
                 [i \in DOMAIN @ |-> IF @[i].id = r /\ @[i].original
                                       THEN [@[i] EXCEPT !.result = Patched(@, patch)]
                                       ELSE @[i]]]
\* src/App.tsx:340, 347: prev.map(c => c.id === collections[0].id ? { ...c, result:
\* { ...c.result, ... } } : c).  collections is the list of the render whose
\* interval called pollVideo; its first entry is the latest one, which is still
\* the first when the poll returns unless another run has stored its image since.
ReplaceEntry(patch) ==
  lookbook' = [lookbook EXCEPT !.entries =
                 [i \in DOMAIN @ |-> IF @[i].id = @[1].id
                                       THEN [@[i] EXCEPT !.result = Patched(@, patch),
                                                         !.original = FALSE]
                                       ELSE @[i]]]

\* `{ ...prev, <field>: value }` on the v1 result object (src/App.tsx:220, 227, 339,
\* 346, 352): a null prev spreads to no fields.
Spread(res) == IF res.isNull THEN EmptyObjectV1 ELSE res

\* src/App.tsx:232-236, the catch block of handleGenerate
CatchGenerateV1(r) ==
  /\ generatedResult' = [EmptyObjectV1 EXCEPT !.error = TRUE]
  /\ generationState' = "error"
  /\ runs' = [runs EXCEPT ![r] = EndedRun(@)]
  /\ PollEffect(TRUE)

\* src/App.tsx:199-230: generateProductShot fulfils; the result object is replaced,
\* videoPromise runs to its first await (211-213) and cutoutPromise to its
\* (224-225); handleGenerate waits in Promise.all.
generateProductShotResolvedV1(c) ==
  /\ variant = "v1"
  /\ c \in CallsOf("compose")
  /\ UNCHANGED polls
  /\ calls' = (calls \ {c}) \cup {Call("describe", c.run, null), Call("cutout", c.run, null)}
  /\ generatedResult' = [EmptyObjectV1 EXCEPT !.image = c.run]
  /\ Collect(c.run, generatedResult')
  /\ generationState' = "loading-video-description"
  /\ runs' = [runs EXCEPT ![c.run].phase = "awaitBoth"]
  /\ PollEffect(TRUE)
  /\ UNCHANGED <<variant, services, elsewhere, selections, generationError, applyTimers>>
  /\ Locked(IF \E q \in lock.requests : q.call = c /\ q.enabled /\ q.reference = 0
              THEN [Returned(lock, c) EXCEPT !.reference = c.run]
              ELSE Returned(lock, c))

generateProductShotRejectedV1(c) ==
  /\ variant = "v1"
  /\ c \in CallsOf("compose")
  /\ UNCHANGED polls
  /\ calls' = calls \ {c}
  /\ CatchGenerateV1(c.run)
  /\ UNCHANGED <<variant, services, elsewhere, lookbook, selections, generationError, applyTimers>>
  /\ Locked(Returned(lock, c))

\* A promise of Promise.all([videoPromise, cutoutPromise]) (src/App.tsx:230)
\* rejects: the catch block runs unless Promise.all has settled already.
RejectedInAllV1(r) ==
  IF runs[r].phase = "awaitBoth"
    THEN CatchGenerateV1(r)
    ELSE UNCHANGED <<generation, runs, videoPollInterval>>

\* ... fulfils: handleGenerate returns once both have.
FulfilledInAllV1(r, which) ==
  runs' = IF runs[r].phase # "awaitBoth" THEN runs
          ELSE IF runs[r].resolved \cup {which} = {"video", "cutout"}
            THEN [runs EXCEPT ![r] = EndedRun(@)]
          ELSE [runs EXCEPT ![r].resolved = @ \cup {which}]

\* src/App.tsx:213-217
generateDescriptionForVideoResolvedV1(c) ==
  /\ variant = "v1"
  /\ c \in CallsOf("describe")
  /\ UNCHANGED polls
  /\ calls' = (calls \ {c}) \cup {Call("video", c.run, null)}
  /\ generationState' = "loading-video"
  /\ PollEffect(generationState # "loading-video")
  /\ UNCHANGED <<variant, services, elsewhere, lock, lookbook, selections, generationError, generatedResult, runs, applyTimers>>

generateDescriptionForVideoRejectedV1(c) ==
  /\ variant = "v1"
  /\ c \in CallsOf("describe")
  /\ UNCHANGED polls
  /\ calls' = calls \ {c}
  /\ RejectedInAllV1(c.run)
  /\ UNCHANGED <<variant, services, elsewhere, lock, lookbook, selections, generationError, applyTimers>>

\* src/App.tsx:217-220
generateRunwayVideoResolvedV1(c, done) ==
  /\ variant = "v1"
  /\ c \in CallsOf("video")
  /\ UNCHANGED polls
  /\ calls' = calls \ {c}
  /\ generatedResult' = [Spread(generatedResult) EXCEPT !.videoOperation = Operation(c.run, done)]
  /\ MutateEntry(c.run, [videoOperation |-> Operation(c.run, done)])
  /\ FulfilledInAllV1(c.run, "video")
  /\ UNCHANGED <<variant, services, elsewhere, lock, selections, generationState, generationError, applyTimers>>
  /\ PollEffect(TRUE)

generateRunwayVideoRejectedV1(c) ==
  /\ variant = "v1"
  /\ c \in CallsOf("video")
  /\ UNCHANGED polls
  /\ calls' = calls \ {c}
  /\ RejectedInAllV1(c.run)
  /\ UNCHANGED <<variant, services, elsewhere, lock, lookbook, selections, generationError, applyTimers>>

\* src/App.tsx:225-227
createProductCutoutResolvedV1(c) ==
  /\ variant = "v1"
  /\ c \in CallsOf("cutout")
  /\ UNCHANGED polls
  /\ calls' = calls \ {c}
  /\ generatedResult' = [Spread(generatedResult) EXCEPT !.cutoutImage = c.run]
  /\ MutateEntry(c.run, [cutoutImage |-> c.run])
  /\ FulfilledInAllV1(c.run, "cutout")
  /\ UNCHANGED <<variant, services, elsewhere, lock, selections, generationState, generationError, applyTimers>>
  /\ PollEffect(TRUE)

createProductCutoutRejectedV1(c) ==
  /\ variant = "v1"
  /\ c \in CallsOf("cutout")
  /\ UNCHANGED polls
  /\ calls' = calls \ {c}
  /\ RejectedInAllV1(c.run)
  /\ UNCHANGED <<variant, services, elsewhere, lock, lookbook, selections, generationError, applyTimers>>

\* ---------------------------------------------------------- v1 video poll
\* The operation is not looked at for being done.
NothingToPollUnlessAbsent == generatedResult.videoOperation = NoOperation
\* src/App.tsx:325  !currentResult?.videoOperation || currentResult.videoOperation.done
NothingToPoll ==
  generatedResult.videoOperation = NoOperation \/ generatedResult.videoOperation.done

\* src/App.tsx:323-332: the interval fires pollVideo of the current render.
pollVideo ==
  /\ variant = "v1"
  /\ videoPollInterval
  /\ PollsInFlight < PollLimit
  /\ IF NothingToPoll
       THEN /\ videoPollInterval' = FALSE
            /\ UNCHANGED polls
       ELSE /\ PollIssued(generatedResult.videoOperation)
            /\ UNCHANGED videoPollInterval
  /\ UNCHANGED <<variant, services, elsewhere, lock, lookbook, selections, generation, runs, calls, applyTimers>>

\* The catch block written as the one of handleGenerate is, `setGeneratedResult({ error })`:
\* the image of the job is lost.
CatchPollV1DroppingResult ==
  /\ generatedResult' = [EmptyObjectV1 EXCEPT !.error = TRUE]
  /\ generationState' = "error"
  /\ PollEffect(TRUE)

\* src/App.tsx:349-354, the catch block of pollVideo
CatchPollV1 ==
  /\ generatedResult' = [Spread(generatedResult) EXCEPT !.error = TRUE]
  /\ generationState' = "error"
  /\ PollEffect(TRUE)

\* src/App.tsx:332-348
pollVideoOperationResolvedV1(id, outcome) ==
  /\ variant = "v1"
  /\ PollSettled(id)
  /\ UNCHANGED calls
  /\ CASE outcome = "uri" ->
            /\ generatedResult' = [Spread(generatedResult) EXCEPT
                                     !.video = id, !.videoOperation = Operation(id, TRUE)]
            /\ generationState' = "success"
            /\ ReplaceEntry([video |-> id, videoOperation |-> Operation(id, TRUE)])
            /\ PollEffect(TRUE)
       [] outcome = "nouri" -> CatchPollV1 /\ UNCHANGED lookbook
       [] outcome = "pending" ->
            /\ generatedResult' = [Spread(generatedResult) EXCEPT
                                     !.videoOperation = Operation(id, FALSE)]
            /\ UNCHANGED generationState
            /\ ReplaceEntry([videoOperation |-> Operation(id, FALSE)])
            /\ PollEffect(TRUE)
  /\ UNCHANGED <<variant, services, elsewhere, lock, selections, generationError, runs, applyTimers>>

pollVideoOperationRejectedV1(id) ==
  /\ variant = "v1"
  /\ PollSettled(id)
  /\ UNCHANGED calls
  /\ CatchPollV1
  /\ UNCHANGED <<variant, services, elsewhere, lock, lookbook, selections, generationError, runs, applyTimers>>

NextV1 ==
  \/ \E p \in Products : onSelectProduct(p)
  \/ \E m \in ModelsV1 : onSelectModel(m)
  \/ \E p \in Poses : onSelectPose(p)
  \/ \E s \in Scenes : handleSelectSceneV1(s)
  \/ \E c \in Colors : handleColorChangeV1(c)
  \/ \E isFullReset \in BOOLEAN : resetSelectionsV1(isFullReset)
  \/ handleGenerateV1
  \/ \E found \in BOOLEAN, m \in ModelsV1, s \in Scenes : handleApplyAndGenerate(found, m, s)
  \/ applyTimerFires
  \/ \E c \in calls : generateProductShotResolvedV1(c)
  \/ \E c \in calls : generateProductShotRejectedV1(c)
  \/ \E c \in calls : generateDescriptionForVideoResolvedV1(c)
  \/ \E c \in calls : generateDescriptionForVideoRejectedV1(c)
  \/ \E c \in calls, done \in BOOLEAN : generateRunwayVideoResolvedV1(c, done)
  \/ \E c \in calls : generateRunwayVideoRejectedV1(c)
  \/ \E c \in calls : createProductCutoutResolvedV1(c)
  \/ \E c \in calls : createProductCutoutRejectedV1(c)
  \/ pollVideo
  \/ \E id \in RunIds : pollVideoOperationRejectedV1(id)
  \/ \E id \in RunIds, o \in PollOutcomes : pollVideoOperationResolvedV1(id, o)

StartV1 ==
  /\ variant = "v1"
  /\ selectedProducts = {}
  /\ selectedModels = {}
  /\ selectedScene = null
  /\ selectedColor = null
  /\ selectedPose = null
  /\ generationState = "idle"
  /\ generationError = null
  /\ generatedResult = NullResultV1
  /\ runs = [r \in RunIds |-> UnusedRun]
  /\ calls = {}
  /\ polls = [r \in RunIds |-> 0]
  /\ videoPollInterval = FALSE
  /\ applyTimers = <<>>
  /\ catalogue = InitialCatalogue
  /\ camera = NoCamera
  /\ compose = NoCompose
  /\ videoStatus = NoStatusCall

InitV1 == StartV1 /\ lookbook = NoLookbook /\ lock = NoLock

SpecV1 == InitV1 /\ [][NextV1]_vars

\* ================================================================ lookbook
\* The controllers with the entries of the lookbook followed, for at most
\* MaxLookbookRuns invocations of handleGenerate and MaxEntries saved entries.

\* src/App.tsx:1474-1490 (920-936); the button is rendered in 'success' (1702).
\* The entry holds the result array and the selections of the render.
saveToLookbook ==
  /\ variant = "v2"
  /\ lookbook.followed
  /\ Len(lookbook.entries) < MaxEntries
  /\ generationState = "success"
  /\ ~(generatedResult.isNull \/ selectedProducts = {} \/ selectedModels = {} \/ selectedPose = null)
  /\ lookbook' = [lookbook EXCEPT !.entries =
                    <<[id |-> Len(@) + 1, result |-> generatedResult, original |-> FALSE,
                       selections |-> [products |-> selectedProducts, models |-> selectedModels,
                                       scene |-> selectedScene, color |-> selectedColor,
                                       pose |-> selectedPose]]>> \o @]
  /\ UNCHANGED <<variant, services, elsewhere, lock, selections, generation, runs, calls, polls,
                 videoPollInterval, applyTimers>>

\* src/App.tsx:1492-1501 (938-947)
loadFromLookbook(i) ==
  /\ variant = "v2"
  /\ i \in DOMAIN lookbook.entries
  /\ LET collection == lookbook.entries[i]
     IN /\ selectedProducts' = collection.selections.products
        /\ selectedModels' = collection.selections.models
        /\ selectedScene' = collection.selections.scene
        /\ selectedColor' = collection.selections.color
        /\ selectedPose' = collection.selections.pose
        /\ generatedResult' = collection.result
  /\ generationState' = "success"
  /\ UNCHANGED <<variant, services, elsewhere, lock, lookbook, generationError, runs, calls, polls,
                 videoPollInterval, applyTimers>>

NextLookbook ==
  \/ NextV1
  \/ NextV2
  \/ saveToLookbook
  \/ \E i \in 1..MaxEntries : loadFromLookbook(i)

InitLookbook == (StartV1 \/ StartV2) /\ lookbook = EmptyLookbook /\ lock = NoLock

SpecLookbook == InitLookbook /\ [][NextLookbook]_vars

\* ======================================================= composeFinalImage
\* The angles of one model, in call order (geminiService.ts:100; part_001:190
\* lists them in another order and issues them together).
AngleIds == 1..3
\* What ai.models.generateContent does for one angle: answers with an image
\* part, answers without one, or throws.
AngleOutcomes == {"image", "noimage", "throw"}
ModelLists == {<<"ava">>, <<"ava", "chloe">>, <<"chloe", "ava">>}
Range(seq) == {seq[i] : i \in DOMAIN seq}

\* compose.answer[m][a]: "notcalled", "pending", or the outcome of the call.
\* compose.results: the array the call builds (models in order, each with the
\* angles that gave an image).  compose.status: the promise the call returned.
\* compose.failed: the models whose processing raised the error.
StartCompose(service, models, first) ==
  [service |-> service, models |-> models,
   answer |-> [m \in Models |-> [a \in AngleIds |-> IF m \in Range(models) /\ first[m][a]
                                                      THEN "pending" ELSE "notcalled"]],
   results |-> <<>>, status |-> "pending", failed |-> {}]

ImagesOf(answer, m) == {a \in AngleIds : answer[m][a] = "image"}
IndexOf(models, m) == CHOOSE i \in DOMAIN models : models[i] = m

\* src/services/geminiService.ts:89-202: the await of line 168 returns or throws
\* for model m, angle a; the loops run on to the next await or to the end.
composeFinalImage(m, a, outcome) ==
  /\ compose.service = "geminiService"
  /\ compose.status = "pending"
  /\ compose.answer[m][a] = "pending"
  /\ LET answered == [compose.answer EXCEPT ![m][a] = outcome]
         i == IndexOf(compose.models, m)
         modelImages == ImagesOf(answered, m)
         results == Append(compose.results, [model |-> m, images |-> modelImages])
     IN compose' =
          IF outcome = "throw"
            THEN [compose EXCEPT !.answer = answered, !.status = "rejected", !.failed = {m}]
          ELSE IF a < 3
            THEN [compose EXCEPT !.answer = [answered EXCEPT ![m][a + 1] = "pending"]]
          ELSE IF modelImages = {}
            THEN [compose EXCEPT !.answer = answered, !.status = "rejected", !.failed = {m}]
          ELSE IF i < Len(compose.models)
            THEN [compose EXCEPT !.answer = [answered EXCEPT ![compose.models[i + 1]][1] = "pending"],
                                 !.results = results]
          ELSE [compose EXCEPT !.answer = answered, !.results = results, !.status = "fulfilled"]
  /\ UNCHANGED <<variant, elsewhere, lock, selections, generation, runs, calls, polls, videoPollInterval,
                 applyTimers,
               videoStatus, lookbook>>

\* src/unnamed/part_001:162-251: one angle promise (193-244) of model m settles.
\* It rejects when the answer has no image part (238-243) or the call throws;
\* Promise.all of the model (246) rejects at the first rejected angle, and
\* Promise.all of the call (250) at the first rejected model.
composeFinalImageParallel(m, a, outcome) ==
  /\ compose.service = "part_001"
  /\ compose.answer[m][a] = "pending"
  /\ LET answered == [compose.answer EXCEPT ![m][a] = outcome]
         rejected == outcome # "image"
         allFulfilled == \A x \in Range(compose.models) : ImagesOf(answered, x) = AngleIds
     IN compose' =
          IF compose.status # "pending"
            THEN [compose EXCEPT !.answer = answered]
          ELSE IF rejected
            THEN [compose EXCEPT !.answer = answered, !.status = "rejected", !.failed = {m}]
          ELSE IF allFulfilled
            THEN [compose EXCEPT !.answer = answered, !.status = "fulfilled",
                                 !.results = [i \in DOMAIN compose.models |->
                                                [model |-> compose.models[i], images |-> AngleIds]]]
          ELSE [compose EXCEPT !.answer = answered]
  /\ UNCHANGED <<variant, elsewhere, lock, selections, generation, runs, calls, polls, videoPollInterval,
                 applyTimers,
               videoStatus, lookbook>>

NextCompose ==
  \/ \E m \in Models, a \in AngleIds, o \in AngleOutcomes : composeFinalImage(m, a, o)
  \/ \E m \in Models, a \in AngleIds, o \in AngleOutcomes : composeFinalImageParallel(m, a, o)

\* A call of either variant with a list of models; the controller is not running.
InitCompose ==
  /\ variant = "none"
  /\ selectedProducts = {}
  /\ selectedModels = {}
  /\ selectedScene = null
  /\ selectedColor = null
  /\ selectedPose = null
  /\ generationState = "idle"
  /\ generationError = null
  /\ generatedResult = NullResult
  /\ runs = [r \in RunIds |-> UnusedRun]
  /\ calls = {}
  /\ polls = [r \in RunIds |-> 0]
  /\ videoPollInterval = FALSE
  /\ applyTimers = <<>>
  /\ catalogue = InitialCatalogue
  /\ camera = NoCamera
  /\ lock = NoLock
  /\ videoStatus = NoStatusCall
  /\ lookbook = NoLookbook
  /\ \E models \in ModelLists :
       \/ compose = StartCompose("geminiService", models,
                                 [m \in Models |-> [a \in AngleIds |-> m = models[1] /\ a = 1]])
       \/ compose = StartCompose("part_001", models,
                                 [m \in Models |-> [a \in AngleIds |-> TRUE]])

SpecCompose == InitCompose /\ [][NextCompose]_vars

\* ========================================================= checkVideoStatus
\* The video uris a backend response can carry (NoUri: the response has none).
Uris == 1..2
NoUri == 0
\* error.message of an operation: no message, the empty string, or a text.
ErrorMessages == {"undefined", "", "quota"}
NoError == "noerror"
\* What ai.operations.getVideosOperation gives: it throws, or it returns the
\* updated operation.
Responses ==
  {[thrown |-> TRUE, done |-> FALSE, error |-> NoError, uri |-> NoUri]} \cup
  [thrown : {FALSE}, done : BOOLEAN, error : ErrorMessages \cup {NoError}, uri : Uris \cup {NoUri}]
\* What fetch of the download link gives.
FetchOutcomes == {"ok", "notok", "throw"}

\* videoStatus.operationError: operation.error.message of the argument.
\* videoStatus.updated: the answer of getVideosOperation once it is there.
\* videoStatus.status: the promise the call returned; value: the url it
\* fulfilled with (NoUri: null); message and directDownloadUrl: the fields of
\* the error it rejected with (NoUri: the property is undefined).
StartStatusCall(service, operationError) ==
  [service |-> service, operationError |-> operationError, phase |-> "getVideosOperation",
   updated |-> [thrown |-> FALSE, done |-> FALSE, error |-> NoError, uri |-> NoUri],
   status |-> "pending", value |-> NoUri, message |-> "none", directDownloadUrl |-> NoUri]

Fulfil(call, value) ==
  [call EXCEPT !.phase = "settled", !.status = "fulfilled", !.value = value]
Reject(call, message, link) ==
  [call EXCEPT !.phase = "settled", !.status = "rejected", !.message = message,
               !.directDownloadUrl = link]

\* src/services/geminiService.ts:315-321: the catch of checkVideoStatus; the error
\* it throws is a new Error, with a message only.
CatchStatus(call) ==
  IF call.operationError \notin {NoError, "undefined", ""}
    THEN Reject(call, "Video generation failed: operation error", NoUri)
    ELSE Reject(call, "Failed to check video status", NoUri)

\* src/services/geminiService.ts:298-302, 313: getVideosOperation returns or throws.
checkVideoStatus(response) ==
  /\ videoStatus.service = "geminiService"
  /\ videoStatus.phase = "getVideosOperation"
  /\ LET call == [videoStatus EXCEPT !.updated = response]
     IN videoStatus' =
          IF response.thrown THEN CatchStatus(call)
          ELSE IF response.done /\ response.uri # NoUri THEN [call EXCEPT !.phase = "fetch"]
          ELSE Fulfil(call, NoUri)
  /\ UNCHANGED <<variant, elsewhere, lock, selections, generation, runs, calls, polls, videoPollInterval,
                 applyTimers,
                 compose, lookbook>>

\* src/services/geminiService.ts:302-312: fetch of the download link settles.
checkVideoStatusFetched(outcome) ==
  /\ videoStatus.service = "geminiService"
  /\ videoStatus.phase = "fetch"
  /\ videoStatus' = IF outcome = "ok" THEN Fulfil(videoStatus, videoStatus.updated.uri)
                    ELSE CatchStatus(videoStatus)
  /\ UNCHANGED <<variant, elsewhere, lock, selections, generation, runs, calls, polls, videoPollInterval,
                 applyTimers,
                 compose, lookbook>>

\* src/unnamed/part_001:347  String(updatedOperation.error.message) || 'Video generation failed.'
MessageOf(errorMessage) ==
  IF errorMessage = "" THEN "Video generation failed." ELSE errorMessage

\* src/unnamed/part_001:340-356, 369-372: getVideosOperation returns or throws.
checkVideoStatusPart001(response) ==
  /\ videoStatus.service = "part_001"
  /\ videoStatus.phase = "getVideosOperation"
  /\ LET call == [videoStatus EXCEPT !.updated = response]
     IN videoStatus' =
          IF response.thrown THEN Reject(call, "getVideosOperation error", NoUri)
          ELSE IF ~response.done THEN Fulfil(call, NoUri)
          ELSE IF response.error # NoError
            THEN Reject(call, MessageOf(response.error), response.uri)
          ELSE IF response.uri # NoUri THEN [call EXCEPT !.phase = "fetch"]
          ELSE Reject(call, "Video generation finished, but no video URI was found in the response.",
                      NoUri)
  /\ UNCHANGED <<variant, elsewhere, lock, selections, generation, runs, calls, polls, videoPollInterval,
                 applyTimers,
                 compose, lookbook>>

\* src/unnamed/part_001:356-365: fetch of the download link settles.
checkVideoStatusPart001Fetched(outcome) ==
  /\ videoStatus.service = "part_001"
  /\ videoStatus.phase = "fetch"
  /\ videoStatus' =
       IF outcome = "ok" THEN Fulfil(videoStatus, videoStatus.updated.uri)
       ELSE IF outcome = "notok" THEN Reject(videoStatus, "Failed to fetch video from URI.", NoUri)
       ELSE Reject(videoStatus, "fetch error", NoUri)
  /\ UNCHANGED <<variant, elsewhere, lock, selections, generation, runs, calls, polls, videoPollInterval,
                 applyTimers,
                 compose, lookbook>>

NextVideoStatus ==
  \/ \E response \in Responses : checkVideoStatus(response)
  \/ \E o \in FetchOutcomes : checkVideoStatusFetched(o)
  \/ \E response \in Responses : checkVideoStatusPart001(response)
  \/ \E o \in FetchOutcomes : checkVideoStatusPart001Fetched(o)

\* A call of either variant with an operation; the controller is not running.
InitVideoStatus ==
  /\ variant = "none"
  /\ selectedProducts = {}
  /\ selectedModels = {}
  /\ selectedScene = null
  /\ selectedColor = null
  /\ selectedPose = null
  /\ generationState = "idle"
  /\ generationError = null
  /\ generatedResult = NullResult
  /\ runs = [r \in RunIds |-> UnusedRun]
  /\ calls = {}
  /\ polls = [r \in RunIds |-> 0]
  /\ videoPollInterval = FALSE
  /\ applyTimers = <<>>
  /\ catalogue = InitialCatalogue
  /\ camera = NoCamera
  /\ lock = NoLock
  /\ compose = NoCompose
  /\ lookbook = NoLookbook
  /\ \E service \in {"geminiService", "part_001"}, e \in ErrorMessages \cup {NoError} :
       videoStatus = StartStatusCall(service, e)

SpecVideoStatus == InitVideoStatus /\ [][NextVideoStatus]_vars

\* ========================================================== identity lock
\* The controllers with the identity lock and the parameters of the
\* generateProductShot calls followed.

\* src/App.tsx:557-565: the Model Lock checkbox, disabled while no model is selected.
setIsModelLockEnabled(checked) ==
  /\ variant = "v1"
  /\ lock.followed
  /\ selectedModels # {}
  /\ checked # lock.enabled
  /\ lock' = [lock EXCEPT !.enabled = checked]
  /\ UNCHANGED <<variant, services, elsewhere, lookbook, selections, generation, runs, calls, polls,
                 videoPollInterval, applyTimers>>

\* src/App.tsx:1704-1707: Lock Character, offered in 'success' for a single result
\* with an image; src/App.tsx:1031, 1581: Unlock, offered while an image is locked.
setLockedCharacterImage(locking) ==
  /\ variant = "v2"
  /\ lock.followed
  /\ IF locking
       THEN /\ generationState = "success"
            /\ ~generatedResult.isNull
            /\ Len(generatedResult.jobs) = 1
            /\ generatedResult.jobs[1].image # NoImage
            /\ lock' = [lock EXCEPT !.reference = generatedResult.jobs[1].image.run]
       ELSE /\ lock.reference # 0
            /\ lock' = [lock EXCEPT !.reference = 0]
  /\ UNCHANGED <<variant, services, elsewhere, lookbook, selections, generation, runs, calls, polls,
                 videoPollInterval, applyTimers>>

\* The steps that make, answer and finish the requests of a run; the failures
\* of the later calls and the other selection handlers are left out.
NextLock ==
  \/ \E p \in Products : onSelectProduct(p)
  \/ \E m \in ModelsV1 : onSelectModel(m)
  \/ \E p \in Poses : onSelectPose(p)
  \/ \E s \in Scenes : handleSelectSceneV1(s)
  \/ \E isFullReset \in BOOLEAN : resetSelectionsV1(isFullReset)
  \/ \E checked \in BOOLEAN : setIsModelLockEnabled(checked)
  \/ handleGenerateV1
  \/ \E found \in BOOLEAN, m \in ModelsV1, s \in Scenes : handleApplyAndGenerate(found, m, s)
  \/ applyTimerFires
  \/ \E c \in calls : generateProductShotResolvedV1(c)
  \/ \E c \in calls : generateProductShotRejectedV1(c)
  \/ \E c \in calls : generateDescriptionForVideoResolvedV1(c)
  \/ \E c \in calls, done \in BOOLEAN : generateRunwayVideoResolvedV1(c, done)
  \/ \E c \in calls : createProductCutoutResolvedV1(c)
  \/ pollVideo
  \/ \E id \in RunIds, o \in PollOutcomes : pollVideoOperationResolvedV1(id, o)
  \/ \E m \in Models : handleSelectModel(m)
  \/ resetSelections
  \/ \E ps \in SUBSET Products, m \in Models \cup {null}, s \in Scenes \cup {null} :
       applySuggestion(ps, m, s)
  \/ \E locking \in BOOLEAN : setLockedCharacterImage(locking)
  \/ handleGenerate
  \/ \E c \in calls : generateProductShotResolved(c)
  \/ \E c \in calls : generateProductShotRejected(c)
  \/ \E c \in calls : createProductCutoutResolved(c)
  \/ \E c \in calls : generateDescriptionForVideoResolved(c)
  \/ \E c \in calls, done \in BOOLEAN : generateRunwayVideoResolved(c, done)
  \/ pollTick
  \/ \E id \in RunIds, o \in PollOutcomes : pollVideoOperationResolved(id, o)

InitLock == (StartV1 \/ StartV2) /\ lookbook = NoLookbook /\ lock = OpenLock

SpecLock == InitLock /\ [][NextLock]_vars

\* ============================================================== catalogue
\* The selection handlers of both controllers over catalogues that grow and
\* shrink; no generation is started.
Kinds == {"products", "models", "scenes"}
\* The custom items, in the order in which they are created.
CustomItems == [n \in 1..MaxCustom |-> IF n = 1 THEN "custom1" ELSE "custom2"]
IsCustom(item) == \E n \in DOMAIN CustomItems : CustomItems[n] = item

\* setter(prev => [...prev, newItem]) of either controller
Added(kind) ==
  [catalogue EXCEPT ![kind] = @ \cup {CustomItems[catalogue.added + 1]}, !.added = @ + 1]
\* setter(prev => prev.filter(item => item.id !== id))
Deleted(kind, id) == [catalogue EXCEPT ![kind] = @ \ {id}]

\* src/App.tsx:97-130: handleAddItem (after fileToDataUrl) and handleItemCreated
handleAddItem(kind) ==
  /\ variant = "v1"
  /\ catalogue.added < MaxCustom
  /\ catalogue' = Added(kind)
  /\ UNCHANGED <<variant, services, lookbook, camera, lock, selections, generation, runs, calls, polls,
                 videoPollInterval, applyTimers>>

\* src/App.tsx:133-144, called with the selection of the render (463, 496, 522);
\* the card shows the button for custom items only (ObjectCard.tsx:40).
handleDeleteItem(kind, id) ==
  /\ variant = "v1"
  /\ id \in catalogue[kind]
  /\ IsCustom(id)
  /\ catalogue' = Deleted(kind, id)
  /\ selectedProducts' = IF kind = "products" /\ selectedProducts = {id} THEN {} ELSE selectedProducts
  /\ selectedModels' = IF kind = "models" /\ selectedModels = {id} THEN {} ELSE selectedModels
  /\ selectedScene' = IF kind = "scenes" /\ selectedScene = id THEN null ELSE selectedScene
  /\ UNCHANGED <<variant, services, lookbook, camera, selectedColor, selectedPose, generation, runs,
                 calls, polls, videoPollInterval, applyTimers>>
  /\ Locked(ModelLockEffect(lock))

\* src/App.tsx:719-736: createItemHandler (after fileToDataUrl) and createItemFromAICall
createItemHandler(kind) ==
  /\ variant = "v2"
  /\ catalogue.added < MaxCustom
  /\ catalogue' = Added(kind)
  /\ UNCHANGED <<variant, services, lookbook, camera, lock, selections, generation, runs, calls, polls,
                 videoPollInterval, applyTimers>>

\* src/App.tsx:754-762 (1309-1317)
createDeleteHandler(kind, id) ==
  /\ variant = "v2"
  /\ id \in catalogue[kind]
  /\ IsCustom(id)
  /\ catalogue' = Deleted(kind, id)
  /\ UNCHANGED <<variant, services, lookbook, camera, lock, selections, generation, runs, calls, polls,
                 videoPollInterval, applyTimers>>

\* A model upload whose processUploadedModelImage call is pending; temp: the
\* temporary model it put in the catalogue (null: none).
Upload(temp) == [temp |-> temp]

\* src/App.tsx:77-82: handleUploadAndProcessModel up to its await; the upload
\* controls are disabled while one is processing (ModelSelector.tsx:152, 214).
handleUploadAndProcessModel ==
  /\ variant = "v1"
  /\ catalogue.uploads = {}
  /\ catalogue.added < MaxCustom
  /\ catalogue' = [Added("models") EXCEPT
                     !.uploads = {Upload(CustomItems[catalogue.added + 1])}]
  /\ UNCHANGED <<variant, services, lookbook, camera, lock, selections, generation, runs, calls, polls,
                 videoPollInterval, applyTimers>>

\* src/App.tsx:84-87: the temporary model is replaced by the final one, which
\* has the same id.
handleUploadAndProcessModelResolved(u) ==
  /\ variant = "v1"
  /\ u \in catalogue.uploads
  /\ catalogue' = [catalogue EXCEPT !.uploads = @ \ {u}]
  /\ UNCHANGED <<variant, services, lookbook, camera, lock, selections, generation, runs, calls, polls,
                 videoPollInterval, applyTimers>>

\* src/App.tsx:88-93: the catch block removes the temporary model.
handleUploadAndProcessModelRejected(u) ==
  /\ variant = "v1"
  /\ u \in catalogue.uploads
  /\ catalogue' = [Deleted("models", u.temp) EXCEPT !.uploads = @ \ {u}]
  /\ UNCHANGED <<variant, services, lookbook, camera, lock, selections, generation, runs, calls, polls,
                 videoPollInterval, applyTimers>>

\* src/App.tsx:740-743 (1295-1298): uploadAndProcessModel up to its await.
uploadAndProcessModel ==
  /\ variant = "v2"
  /\ catalogue.uploads = {}
  /\ catalogue.added < MaxCustom
  /\ catalogue' = [catalogue EXCEPT !.uploads = {Upload(null)}]
  /\ UNCHANGED <<variant, services, lookbook, camera, lock, selections, generation, runs, calls, polls,
                 videoPollInterval, applyTimers>>

\* src/App.tsx:743-744: the processed model is appended.
uploadAndProcessModelResolved(u) ==
  /\ variant = "v2"
  /\ u \in catalogue.uploads
  /\ catalogue.added < MaxCustom
  /\ catalogue' = [Added("models") EXCEPT !.uploads = @ \ {u}]
  /\ UNCHANGED <<variant, services, lookbook, camera, lock, selections, generation, runs, calls, polls,
                 videoPollInterval, applyTimers>>

\* src/App.tsx:745-750: the catch block records the message and throws again.
uploadAndProcessModelRejected(u) ==
  /\ variant = "v2"
  /\ u \in catalogue.uploads
  /\ catalogue' = [catalogue EXCEPT !.uploads = @ \ {u}]
  /\ generationError' = "message"
  /\ UNCHANGED <<variant, services, lookbook, camera, lock, selections, generationState,
                 generatedResult, runs, calls, polls, videoPollInterval, applyTimers>>

NextCatalogue ==
  \/ handleUploadAndProcessModel
  \/ \E u \in catalogue.uploads : handleUploadAndProcessModelResolved(u)
  \/ \E u \in catalogue.uploads : handleUploadAndProcessModelRejected(u)
  \/ uploadAndProcessModel
  \/ \E u \in catalogue.uploads : uploadAndProcessModelResolved(u)
  \/ \E u \in catalogue.uploads : uploadAndProcessModelRejected(u)
  \/ \E p \in catalogue.products : onSelectProduct(p)
  \/ \E m \in catalogue.models : onSelectModel(m)
  \/ \E s \in catalogue.scenes : handleSelectSceneV1(s)
  \/ \E kind \in Kinds : handleAddItem(kind)
  \/ \E kind \in Kinds : \E id \in catalogue[kind] : handleDeleteItem(kind, id)
  \/ \E p \in catalogue.products : handleSelectProduct(p)
  \/ \E m \in catalogue.models : handleSelectModel(m)
  \/ \E s \in catalogue.scenes : handleSelectScene(s)
  \/ \E kind \in Kinds : createItemHandler(kind)
  \/ \E kind \in Kinds : \E id \in catalogue[kind] : createDeleteHandler(kind, id)

InitCatalogue == (StartV1 \/ StartV2) /\ lookbook = NoLookbook /\ lock = NoLock

SpecCatalogue == InitCatalogue /\ [][NextCatalogue]_vars

\* ============================================================ either controller
\* ------------------------------------------------- CameraView (ModelSelector)
\* src/components/ModelSelector.tsx:344-396: the <video> element is rendered
\* only by the last return of CameraView.
VideoRendered(cam) ==
  /\ cam.mounted
  /\ ~cam.isProcessing
  /\ ~cam.processingError
  /\ ~cam.capturedImage
  /\ ~cam.error

FreeEffects == {e \in 1..MaxCameraEffects : camera.effects[e].phase = "unused"}
NewEffect == CHOOSE e \in FreeEffects : \A f \in FreeEffects : e <= f

\* src/components/ModelSelector.tsx:316-324: the cleanup of the effect run that
\* React holds.  `stream` is the variable of that run: still null while its
\* getUserMedia is pending.
CameraCleanup(cam) ==
  IF cam.effect = 0 THEN cam
  ELSE [cam EXCEPT !.effects[cam.effect].cleaned = TRUE,
                   !.effects[cam.effect].stream = IF @ = "active" THEN "stopped" ELSE @,
                   !.srcObject = 0]

\* src/components/ModelSelector.tsx:278-312: a run of the effect, up to the
\* await of getUserMedia.
startCamera(cam) ==
  IF cam.capturedImage
    THEN [cam EXCEPT !.effect = NewEffect, !.effects[NewEffect].phase = "skipped"]
    ELSE [cam EXCEPT !.effect = NewEffect, !.effects[NewEffect].phase = "pending",
                     !.error = FALSE]

CameraStep(after) ==
  /\ camera.followed
  /\ camera' = after
  /\ UNCHANGED <<variant, services, catalogue, lock, lookbook, selections, generation,
                 runs, calls, polls, videoPollInterval, applyTimers>>

\* src/components/ModelSelector.tsx:138, 224-237: the camera tab is opened and
\* CameraView mounts.
setActiveTabCamera ==
  /\ ~camera.mounted
  /\ FreeEffects # {}
  /\ CameraStep(startCamera([camera EXCEPT !.mounted = TRUE, !.error = FALSE]))

\* src/components/ModelSelector.tsx:135-137: another tab is opened and
\* CameraView unmounts.
setActiveTabAway ==
  /\ camera.mounted
  /\ CameraStep([CameraCleanup(camera) EXCEPT !.mounted = FALSE, !.effect = 0])

\* src/components/ModelSelector.tsx:290-302: getUserMedia resolves in run e.
getUserMediaResolved(e) ==
  /\ camera.effects[e].phase = "pending"
  /\ CameraStep([camera EXCEPT
       !.effects[e].phase = "resolved",
       !.effects[e].stream = "active",
       !.srcObject = IF e = camera.effect /\ VideoRendered(camera) THEN e ELSE @])

\* src/components/ModelSelector.tsx:303-310: getUserMedia rejects in run e.
getUserMediaRejected(e) ==
  /\ camera.effects[e].phase = "pending"
  /\ CameraStep([camera EXCEPT
       !.effects[e].phase = "rejected",
       !.error = IF e = camera.effect /\ camera.mounted THEN TRUE ELSE @,
       !.srcObject = IF e = camera.effect /\ camera.mounted THEN 0 ELSE @])

\* src/components/ModelSelector.tsx:327-342, 115-117: Capture; capturedImage
\* changes, so the effect is cleaned up and run again.
handleCapture ==
  /\ VideoRendered(camera)
  /\ camera.srcObject # 0
  /\ FreeEffects # {}
  /\ CameraStep(startCamera([CameraCleanup(camera) EXCEPT !.capturedImage = TRUE]))

\* src/components/ModelSelector.tsx:119-122: Retake / Try Again.
handleRetake ==
  /\ camera.mounted
  /\ ~camera.isProcessing
  /\ camera.processingError \/ camera.capturedImage
  /\ camera.capturedImage => FreeEffects # {}
  /\ LET cleared == [camera EXCEPT !.processingError = FALSE]
     IN CameraStep(IF camera.capturedImage
                     THEN startCamera([CameraCleanup(cleared) EXCEPT !.capturedImage = FALSE])
                     ELSE cleared)

\* src/components/ModelSelector.tsx:124-129, 89-91: Use This Photo, up to the
\* await of onUploadAndProcessModel.
handleUsePhoto ==
  /\ camera.mounted
  /\ camera.capturedImage
  /\ ~camera.isProcessing
  /\ ~camera.processingError
  /\ CameraStep([camera EXCEPT !.isProcessing = TRUE])

\* src/components/ModelSelector.tsx:92-100: onUploadAndProcessModel settles.
processFileSettled(ok) ==
  /\ camera.isProcessing
  /\ CameraStep(IF ok
                  THEN [CameraCleanup(camera) EXCEPT !.mounted = FALSE, !.effect = 0,
                                                     !.capturedImage = FALSE,
                                                     !.isProcessing = FALSE]
                  ELSE [camera EXCEPT !.processingError = TRUE, !.isProcessing = FALSE])

NextCamera ==
  \/ setActiveTabCamera
  \/ setActiveTabAway
  \/ \E e \in 1..MaxCameraEffects : getUserMediaResolved(e)
  \/ \E e \in 1..MaxCameraEffects : getUserMediaRejected(e)
  \/ handleCapture
  \/ handleRetake
  \/ handleUsePhoto
  \/ \E ok \in BOOLEAN : processFileSettled(ok)

InitCamera ==
  /\ variant = "none"
  /\ selectedProducts = {}
  /\ selectedModels = {}
  /\ selectedScene = null
  /\ selectedColor = null
  /\ selectedPose = null
  /\ generationState = "idle"
  /\ generationError = null
  /\ generatedResult = NullResult
  /\ runs = [r \in RunIds |-> UnusedRun]
  /\ calls = {}
  /\ polls = [r \in RunIds |-> 0]
  /\ videoPollInterval = FALSE
  /\ applyTimers = <<>>
  /\ catalogue = InitialCatalogue
  /\ camera = ClosedCamera
  /\ lock = NoLock
  /\ compose = NoCompose
  /\ videoStatus = NoStatusCall
  /\ lookbook = NoLookbook

SpecCamera == InitCamera /\ [][NextCamera]_vars

Init == InitV1 \/ InitV2
Next == NextV1 \/ NextV2
Spec == Init /\ [][Next]_vars

\* ==================================================================== claims
\* A composition, cutout, description or video-submission promise settles in
\* this step (its continuation runs and the call leaves `calls`).
CallSettles == calls \ calls' # {}
\* A pollVideoOperation promise settles in this step.
PollSettles == \E id \in RunIds : polls'[id] < polls[id]
\* An invocation of handleGenerate passes its guard in this step: the state is
\* set to 'loading-image' and the composition call(s) are issued.
RunStarts == \E r \in RunIds : /\ runs[r].phase = "unused"
                               /\ runs'[r].phase \in {"awaitImage", "awaitAll"}
\* handleGenerate is invoked in this step, whether or not it passes its guard.
RunInvoked == \E r \in RunIds : runs[r].phase = "unused" /\ runs'[r].phase # "unused"
\* The compose calls of run r that are in flight.
ComposeOf(r) == {c \in calls : c.kind = "compose" /\ c.run = r}
\* Run r is the only invocation of handleGenerate so far.
OnlyRun(r) == \A q \in RunIds \ {r} : runs[q].phase = "unused"

\* C1: after resetSelections has returned the controller to 'idle' with a null
\* result, a composition, cutout, description or video-submission call that
\* settles leaves generationState 'idle' and the result null.
C1_StaleResolutionDiscarded ==
  [][(generationState = "idle" /\ generatedResult.isNull /\ CallSettles)
       => (generationState' = "idle" /\ generatedResult'.isNull)]_vars

\* C2: after resetSelections has returned the controller to 'idle', a video
\* poll that settles (done, not done or failing) writes nothing into the result
\* and does not move generationState.
C2_StalePollDiscarded ==
  [][(generationState = "idle" /\ generatedResult.isNull /\ PollSettles)
       => (generationState' = "idle" /\ generatedResult' = generatedResult)]_vars

\* C3: while generationState is one of the loading states, no invocation of
\* handleGenerate (Generate button or handleApplyAndGenerate) sets the state to
\* 'loading-image' again or issues a composition call.
C3_NoStartWhileLoading ==
  [][(generationState \in LoadingStates) => (~RunStarts)]_vars

\* C4: when no product, no model or no pose is selected, or neither a scene nor
\* a color, no invocation of handleGenerate issues a backend call or changes
\* generationState or the result.
C4_RefusedWhenSelectionMissing ==
  [][(\/ selectedProducts = {}
      \/ selectedModels = {}
      \/ selectedPose = null
      \/ (selectedScene = null /\ selectedColor = null))
       /\ RunInvoked
       => UNCHANGED <<calls, generationState, generatedResult>>]_vars

\* C5: when the last composition call of a run settles (the run being the only
\* one, still in 'loading-image'), the result holds exactly one job per model
\* the run was started with, and each job has an image.
C5_OneJobPerModel ==
  [][\A r \in RunIds :
       (/\ OnlyRun(r)
        /\ generationState = "loading-image"
        /\ ComposeOf(r) # {}
        /\ ComposeOf(r)' = {})
       => (/\ ~generatedResult'.isNull
           /\ Len(generatedResult'.jobs) = Cardinality(runs[r].models)
           /\ {generatedResult'.jobs[i].model : i \in DOMAIN generatedResult'.jobs} = runs[r].models
           /\ \A i \in DOMAIN generatedResult'.jobs : generatedResult'.jobs[i].image # NoImage)]_vars

\* C6: a poll attempt that rejects while the video is awaited does not move
\* generationState to 'error': the state stays 'loading-video', so the poll
\* loop goes on.
C6_TransientPollFailureRetried ==
  [][\A id \in RunIds :
       (/\ generationState = "loading-video"
        /\ (pollVideoOperationRejected(id) \/ pollVideoOperationRejectedV1(id)))
       => generationState' = "loading-video"]_vars

\* C7: a createProductCutout call that rejects does not move generationState
\* to 'error' and leaves the result, the job's image included, as it was.
C7_CutoutFailureNeverAborts ==
  [][\A c \in calls :
       (createProductCutoutRejectedV1(c) \/ createProductCutoutRejected(c))
       => (generationState' = generationState /\ generatedResult' = generatedResult)]_vars

\* C8: once the image (likewise the cutoutImage) of run r is in the v1 result, no
\* settling call or poll of the same run removes or changes it.
C8_JobFieldsMonotonic ==
  [][(/\ variant = "v1"
      /\ ~generatedResult.isNull
      /\ \/ \E c \in calls \ calls' : c.run = generatedResult.image
         \/ \E id \in RunIds : polls'[id] < polls[id] /\ id = generatedResult.image)
       => (/\ generatedResult'.image = generatedResult.image
           /\ generatedResult.cutoutImage # 0 =>
                generatedResult'.cutoutImage = generatedResult.cutoutImage)]_vars

\* C9: a model for which two angle calls gave an image and one failed (no image
\* or a throw) is not failed, and its entry in the results has exactly the two
\* images.
C9_AngleFailureContained ==
  \A m \in Models :
    (/\ compose.answer[m] \in [AngleIds -> AngleOutcomes]
     /\ Cardinality(ImagesOf(compose.answer, m)) = 2)
    => (/\ m \notin compose.failed
        /\ \E i \in DOMAIN compose.results :
             /\ compose.results[i].model = m
             /\ compose.results[i].images = ImagesOf(compose.answer, m))

\* C10: in a run with several models, a composition call that rejects does not
\* move generationState to 'error'.
C10_ModelFailureIsolated ==
  [][\A c \in calls :
       (/\ Cardinality(runs[c.run].models) > 1
        /\ generationState = "loading-image"
        /\ generateProductShotRejected(c))
       => generationState' # "error"]_vars

\* C11: generationState leaves 'loading-image' for 'success', 'error' or a later
\* loading state only in a step after which no composition call of the run is
\* pending (the run being the only one so far).
C11_LoadingImageUntilAllSettled ==
  [][\A r \in RunIds :
       (/\ OnlyRun(r)
        /\ runs[r].phase # "unused"
        /\ generationState = "loading-image"
        /\ generationState' \notin {"loading-image", "idle"})
       => ComposeOf(r)' = {}]_vars

\* C12: when, of two composition calls of a run, one fulfils while the other is
\* still pending, the result then holds a job with the fulfilled call's model
\* and that model's image, every job's image is its own model's, no job belongs
\* to the pending model, and generationState is still 'loading-image'.
C12_OutOfOrderTolerated ==
  [][\A c \in calls :
       (/\ OnlyRun(c.run)
        /\ generationState = "loading-image"
        /\ generateProductShotResolved(c)
        /\ ComposeOf(c.run) \ {c} # {})
       => LET jobs == generatedResult'.jobs
              pending == {d.model : d \in ComposeOf(c.run) \ {c}}
          IN /\ \E i \in DOMAIN jobs : /\ jobs[i].model = c.model
                                       /\ jobs[i].image = [run |-> c.run, model |-> c.model]
             /\ \A i \in DOMAIN jobs : /\ jobs[i].image.model = jobs[i].model
                                       /\ jobs[i].model \notin pending
             /\ generationState' = "loading-image"]_vars

\* The later of two selected models has its job while the earlier one's
\* composition call is still pending.
C12_Witness ==
  /\ variant = "v2"
  /\ generationState = "loading-image"
  /\ \E r \in RunIds : /\ OnlyRun(r)
                       /\ ComposeOf(r) = {Call("compose", r, "ava")}
                       /\ generatedResult.jobs =
                            <<[EmptyJob EXCEPT !.model = "chloe", !.image = [run |-> r, model |-> "chloe"]]>>

C14_StepsOrdered ==
  /\ [][\A c \in calls' \ calls :
          /\ c.kind \in {"cutout", "describe"} =>
               /\ \E d \in calls \ calls' : d.kind = "compose" /\ d.run = c.run
               /\ IF variant = "v1"
                    THEN generatedResult'.image = c.run
                    ELSE \E i \in DOMAIN generatedResult'.jobs :
                           generatedResult'.jobs[i].image.run = c.run
          /\ c.kind = "video" =>
               \E d \in calls \ calls' : d.kind = "describe" /\ d.run = c.run]_vars
  /\ [](\A c \in calls :
          /\ c.kind \in {"cutout", "describe", "video"} =>
               ~\E d \in calls : d.kind = "compose" /\ d.run = c.run
          /\ c.kind = "video" =>
               ~\E d \in calls : d.kind = "describe" /\ d.run = c.run)

\* The video-submission call of a run is in flight, the description having
\* fulfilled, while the cutout call of the same run has not settled yet.
C14_Witness ==
  \E r \in RunIds : /\ [kind |-> "video", run |-> r, model |-> null] \in calls
                    /\ [kind |-> "cutout", run |-> r, model |-> null] \in calls

\* C15: a tick of the poll loop at which the result holds no video operation
\* that is present and not done issues no poll call and leaves no interval
\* scheduled.
C15_PollLoopCancelsItself ==
  [][((pollVideo \/ pollTick)
      /\ IF variant = "v1"
           THEN generatedResult.videoOperation = NoOperation \/ generatedResult.videoOperation.done
           ELSE \A i \in DOMAIN generatedResult.jobs :
                  \/ generatedResult.jobs[i].videoOperation = NoOperation
                  \/ generatedResult.jobs[i].videoOperation.done)
       => (/\ polls' = polls
           /\ ~videoPollInterval'
           /\ variant = "v2" => ~PollIntervalScheduled')]_vars

\* The interval of the single-model controller has cancelled itself: the state
\* is still 'loading-video', the operation is done, no interval is scheduled and
\* no poll is in flight.
C15_Witness ==
  /\ variant = "v1"
  /\ generationState = "loading-video"
  /\ generatedResult.videoOperation # NoOperation
  /\ generatedResult.videoOperation.done
  /\ ~videoPollInterval
  /\ \A id \in RunIds : polls[id] = 0

\* The video url the result holds (0: none): of the object in the single-model
\* controller, of the first job in the multi-model one.
VideoOf(res) ==
  IF variant = "v1" THEN res.video
  ELSE IF res.isNull \/ Len(res.jobs) = 0 THEN 0 ELSE res.jobs[1].video

\* C16: once the result of a run (the only invocation so far) holds the video
\* url of its operation, no step issues a poll call for that operation, and
\* the url stays what it is for as long as the run's result is there.
C16_ResolvedSlotNotPolledAgain ==
  [][\A r \in RunIds :
       (/\ OnlyRun(r)
        /\ \A q \in RunIds \ {r} : runs'[q].phase = "unused"
        /\ VideoOf(generatedResult) = r)
       => (/\ polls'[r] <= polls[r]
           /\ ~generatedResult'.isNull => VideoOf(generatedResult') = r)]_vars


\* C17: at no time are two poll requests for the same video operation in
\* flight together.
C17_PollTicksSerialized ==
  \A id \in RunIds : polls[id] <= 1


\* C18: when checkVideoStatus has settled for an operation that is done with
\* an error, it has rejected, and the error's directDownloadUrl is the video
\* uri of the response (undefined when the response has none); whatever the
\* outcome, the link is never anything but that uri.
C18_SalvageLinkPreserved ==
  (videoStatus.service # "none" /\ videoStatus.status # "pending")
    => /\ (videoStatus.updated.done /\ videoStatus.updated.error # NoError)
            => (/\ videoStatus.status = "rejected"
                /\ videoStatus.directDownloadUrl = videoStatus.updated.uri)
       /\ videoStatus.directDownloadUrl \in {NoUri, videoStatus.updated.uri}


\* A step of resetSelections, called from a button or from applySuggestion.
ResetStep ==
  \/ resetSelections
  \/ \E ps \in SUBSET Products, m \in Models \cup {null}, s \in Scenes \cup {null} :
       applySuggestion(ps, m, s)
  \/ \E isFullReset \in BOOLEAN : resetSelectionsV1(isFullReset)

\* C19: generationState goes from another state to 'idle' only in a step of
\* resetSelections, and right after a step of resetSelections the result is
\* null, the recorded error is null and no poll interval is scheduled.
C19_IdleOnlyByReset ==
  [][/\ (generationState # "idle" /\ generationState' = "idle") => ResetStep
     /\ (generationState' = "idle" /\ (generationState # "idle" \/ ResetStep))
          => (/\ generatedResult'.isNull
              /\ generationError' = null
              /\ ~videoPollInterval'
              /\ variant = "v2" => ~PollIntervalScheduled')]_vars

\* A reset has just taken the controller out of 'loading-video', where an
\* interval was scheduled and a poll is still in flight.
C19_Witness ==
  /\ generationState = "idle"
  /\ generatedResult.isNull
  /\ ~videoPollInterval
  /\ \E r \in RunIds : runs[r].phase # "unused" /\ polls[r] > 0


\* The entries that were there before the step, as they are after it (new
\* entries are put in front).
EntriesKept ==
  SubSeq(lookbook'.entries, Len(lookbook'.entries) - Len(lookbook.entries) + 1,
         Len(lookbook'.entries))

\* C20: an entry comes into the lookbook only in a step of saveToLookbook,
\* taken in 'success', and no step changes the result of an entry that is
\* already there.
C20_LookbookEntriesImmutable ==
  [][/\ Len(lookbook'.entries) >= Len(lookbook.entries)
     /\ Len(lookbook'.entries) > Len(lookbook.entries)
          => (generationState = "success" /\ saveToLookbook)
     /\ \A i \in DOMAIN lookbook.entries :
          EntriesKept[i].result = lookbook.entries[i].result]_vars


\* C21: every selected product, model and scene is in its catalogue.
C21_SelectionInCatalogue ==
  /\ selectedProducts \subseteq catalogue.products
  /\ selectedModels \subseteq catalogue.models
  /\ selectedScene # null => selectedScene \in catalogue.scenes


\* A reference image is set: lockedCharacterImage (v2); referenceImageUrl with
\* the model lock on (v1).
ReferenceSet ==
  lock.reference # 0 /\ (variant = "v1" => lock.enabled)

\* C22: while a reference image is set, every generateProductShot call that a
\* step makes is given that image; no other kind of call is given one.
C22_ReferenceAttached ==
  /\ [](\A q \in lock.requests : q.call.kind = "compose")
  /\ [][ReferenceSet =>
          \A c \in calls' \ calls :
            c.kind = "compose" =>
              \E q \in lock'.requests : q.call = c /\ q.attached = lock.reference]_vars


\* Nothing is left that could move the pipeline: no backend call and no poll
\* request in flight, no poll interval and no timeout pending.
Quiescent ==
  /\ calls = {}
  /\ PollsInFlight = 0
  /\ ~videoPollInterval
  /\ applyTimers = <<>>

C24_NullOnlyWhileProcessing ==
  (videoStatus.status = "fulfilled" /\ videoStatus.value = NoUri)
    => ~videoStatus.updated.done


\* C25: once the cleanup of a run of the CameraView effect has been called, no
\* media stream opened by that run is active.
C25_StreamStoppedAfterCleanup ==
  \A e \in 1..MaxCameraEffects :
    camera.effects[e].cleaned => camera.effects[e].stream # "active"


\* C26: a poll response that reports the operation done without a video URI
\* moves the controller to 'error' with a recorded message, leaves no poll
\* interval scheduled, writes no video URL and keeps the image of the job.
C26_DoneWithoutUri ==
  [][\A id \in RunIds :
       /\ pollVideoOperationResolvedV1(id, "nouri") =>
            /\ generationState' = "error"
            /\ generatedResult'.error
            /\ ~videoPollInterval'
            /\ generatedResult'.video = generatedResult.video
            /\ generatedResult'.image = generatedResult.image
            /\ lookbook' = lookbook
       /\ pollVideoOperationResolved(id, "nouri") =>
            /\ generationState' = "error"
            /\ generationError' # null
            /\ ~PollIntervalScheduled'
            /\ generatedResult' = generatedResult]_vars

\* The controller is in 'error' after the polling stage: the job has its image
\* and its video operation, no video URL, a message is recorded and no poll
\* request is left.
C26_Witness ==
  /\ generationState = "error"
  /\ PollsInFlight = 0
  /\ \/ /\ variant = "v1"
        /\ generatedResult.error
        /\ generatedResult.image # 0
        /\ generatedResult.videoOperation # NoOperation
        /\ generatedResult.video = 0
        /\ ~videoPollInterval
     \/ /\ variant = "v2"
        /\ generationError # null
        /\ ~generatedResult.isNull
        /\ Len(generatedResult.jobs) = 1
        /\ generatedResult.jobs[1].image # NoImage
        /\ generatedResult.jobs[1].videoOperation # NoOperation
        /\ generatedResult.jobs[1].video = 0


TerminalStates == {"success", "error"}

\* C27: once generationState is 'success' or 'error', a step changes it only if
\* it is a reset, a start of a new run or the loading of a lookbook entry; taken
\* while a single run has been started, so that every other step is a
\* continuation of the run that reached the terminal state.
C27_TerminalStable ==
  [][(/\ generationState \in TerminalStates
      /\ generationState' # generationState
      /\ \E r \in RunIds : OnlyRun(r))
       => \/ ResetStep
          \/ RunStarts
          \/ \E i \in 1..MaxEntries : loadFromLookbook(i)]_vars


\* C28: when processUploadedModelImage fails, the catalogue holds no temporary
\* model of that upload afterwards, and no selected model is one that the
\* failure removed from the catalogue.
C28_FailedUploadLeavesNoTrace ==
  [][\A u \in catalogue.uploads :
       (handleUploadAndProcessModelRejected(u) \/ uploadAndProcessModelRejected(u))
         => /\ u.temp \notin catalogue'.models
            /\ selectedModels' \cap (catalogue.models \ catalogue'.models) = {}]_vars


\* C29: in 'success' the result is there and every job of it has an image; in
\* 'error' a message is recorded.
C29_ResultMatchesState ==
  /\ (variant = "v2" /\ generationState = "success") =>
       /\ ~generatedResult.isNull
       /\ Len(generatedResult.jobs) > 0
       /\ \A i \in 1..Len(generatedResult.jobs) : generatedResult.jobs[i].image # NoImage
  /\ (variant = "v2" /\ generationState = "error") => generationError # null
  /\ (variant = "v1" /\ generationState = "success") =>
       ~generatedResult.isNull /\ generatedResult.image # 0
  /\ (variant = "v1" /\ generationState = "error") => generatedResult.error


\* C30: selectedScene and selectedColor are never both set.
C30_SceneColorExclusive ==
  ~(selectedScene # null /\ selectedColor # null)

\* A lookbook entry saved with a solid color has been loaded, while another
\* entry was saved with a scene: the color is selected and the scene is not.
C30_Witness ==
  /\ variant = "v2"
  /\ generationState = "success"
  /\ selectedColor # null
  /\ selectedScene = null
  /\ \E i, j \in DOMAIN lookbook.entries :
       /\ lookbook.entries[i].selections.scene # null
       /\ lookbook.entries[j].selections.color = selectedColor
       /\ lookbook.entries[j].result = generatedResult

====
